---------------------------- MODULE Spec2Model ----------------------------
(***************************************************************************)
(* A model of shared/js/moz_intl.js (mozIntl): the duration formatter, the *)
(* relative-time formatter, the relative-date helper and the scaled unit   *)
(* formatter.                                                              *)
(*                                                                         *)
(* Strings that the code cuts or rewrites (the duration pattern and the    *)
(* formatted duration) are sequences of one-character strings, indexed     *)
(* from 0 by the JavaScript helpers below.  Message keys, which the code   *)
(* only concatenates, are TLA+ strings.                                    *)
(***************************************************************************)
EXTENDS Integers, Sequences, FiniteSets, TLC

VARIABLES
    formatter,  \* the object DurationFormat() resolved to (options, indices, pattern)
    element,    \* the DOM element handed to RelativeDate.formatElement
    now,        \* the last reading of Date.now()
    op,         \* the entry point called last
    args,       \* its arguments
    ret         \* what it returned (or threw)

vars == <<formatter, element, now, op, args, ret>>

-----------------------------------------------------------------------------
(* JavaScript primitives *)

Abs(n) == IF n < 0 THEN -n ELSE n

\* Math.round(a / b) for integers a and b > 0: the nearest integer, a tie going
\* towards +Infinity (Math.round(-1.5) = -1, Math.round(-0.4) = -0).
MathRoundDiv(a, b) == (2 * a + b) \div (2 * b)

\* Math.floor(a / b) for integers a and b > 0.
MathFloorDiv(a, b) == a \div b

\* A JavaScript number holding a time in milliseconds, or NaN.  Millisecond
\* timestamps do not fit the model checker's 32-bit integers, so the integer
\* s * 1000 + ms is kept as the pair (s, ms) with 0 <= ms < 1000.
TimeMs(s, ms) == [nan |-> FALSE, s |-> s + (ms \div 1000), ms |-> ms % 1000]
NaNTime == [nan |-> TRUE, s |-> 0, ms |-> 0]

\* a - b and a + b on such numbers (NaN is contagious).
TimeSub(a, b) == IF a.nan \/ b.nan THEN NaNTime ELSE TimeMs(a.s - b.s, a.ms - b.ms)
TimeAdd(a, b) == IF a.nan \/ b.nan THEN NaNTime ELSE TimeMs(a.s + b.s, a.ms + b.ms)

\* A JavaScript number holding a small integer, or NaN.
Num(n) == [nan |-> FALSE, n |-> n]
NaN == [nan |-> TRUE, n |-> 0]

\* String.prototype.indexOf: 0-based index of the first occurrence, or -1.
indexOf(string, token) ==
    LET hits == {i \in 0..(Len(string) - Len(token)) :
                    SubSeq(string, i + 1, i + Len(token)) = token}
    IN  IF hits = {} THEN -1 ELSE CHOOSE i \in hits : \A j \in hits : i <= j

Clamp(n, len) == IF n < 0 THEN 0 ELSE IF n > len THEN len ELSE n

\* String.prototype.substring(start, end): both indices are clamped to
\* [0, length] and swapped when start > end.
substring(string, start, end) ==
    LET s == Clamp(start, Len(string))
        e == Clamp(end, Len(string))
        lo == IF s <= e THEN s ELSE e
        hi == IF s <= e THEN e ELSE s
    IN  SubSeq(string, lo + 1, hi)

\* String.prototype.replace(token, by) with a string pattern: the first
\* occurrence only; the string is returned unchanged when there is none.
replace(string, token, by) ==
    LET i == indexOf(string, token)
    IN  IF i = -1 THEN string
        ELSE SubSeq(string, 1, i) \o by \o SubSeq(string, i + Len(token) + 1, Len(string))

DigitChar == <<"0", "1", "2", "3", "4", "5", "6", "7", "8", "9">>

RECURSIVE Digits(_)
Digits(n) == IF n < 10 THEN <<DigitChar[n + 1]>>
             ELSE Digits(n \div 10) \o <<DigitChar[(n % 10) + 1]>>

\* Intl.NumberFormat(locales, {style: 'decimal', useGrouping: false,
\* minimumIntegerDigits: 2}).format(n) for an integer n >= 0.
numFormatter(n) == IF n < 10 THEN <<"0">> \o Digits(n) ELSE Digits(n)

-----------------------------------------------------------------------------
(* Data used by DurationFormat *)

durationFormatOrder == <<"hour", "minute", "second", "millisecond">>

durationFormatElements ==
    [hour        |-> [value |-> 3600000, token |-> <<"h", "h">>],
     minute      |-> [value |-> 60000,   token |-> <<"m", "m">>],
     second      |-> [value |-> 1000,    token |-> <<"s", "s">>],
     millisecond |-> [value |-> 10,      token |-> <<"S", "S">>]]

DurationUnits == {durationFormatOrder[i] : i \in 1..Len(durationFormatOrder)}

\* durationFormatOrder[i] with JavaScript's 0-based index.
OrderAt(i) == durationFormatOrder[i + 1]

\* durationFormatOrder.indexOf(name): 0-based, -1 when absent.
OrderIndexOf(name) ==
    IF name \in DurationUnits
    THEN (CHOOSE i \in 1..Len(durationFormatOrder) : durationFormatOrder[i] = name) - 1
    ELSE -1

\* getDurationUnitIdx: the default for a falsy name (modelled as ""), the position
\* of a known name, and idx = -2 standing for `throw new Error('Unknown unit type')`.
getDurationUnitIdx(name, defaultValue) ==
    IF name = "" THEN defaultValue
    ELSE IF OrderIndexOf(name) = -1 THEN -2
    ELSE OrderIndexOf(name)

RECURSIVE SplitLoop(_, _, _, _)
SplitLoop(i, minUnitIdx, input, units) ==
    IF i > minUnitIdx THEN units
    ELSE LET key == OrderAt(i)
             value == durationFormatElements[key].value
             n == IF i = minUnitIdx THEN MathRoundDiv(input, value)
                                    ELSE MathFloorDiv(input, value)
         IN  SplitLoop(i + 1, minUnitIdx, input - n * value, units @@ (key :> n))

\* splitIntoTimeUnits: the object it returns is a function from the unit names
\* maxUnit..minUnit to their magnitudes (the empty function when the loop body
\* never runs).
splitIntoTimeUnits(v, maxUnitIdx, minUnitIdx) ==
    SplitLoop(maxUnitIdx, minUnitIdx, Abs(v), <<>>)

trimDurationPattern_noTokenLength(string, maxUnit, minUnit) ==
    LET maxToken == durationFormatElements[maxUnit].token
        minToken == durationFormatElements[minUnit].token
    IN  substring(string, indexOf(string, maxToken), indexOf(string, minToken))

trimDurationPattern(string, maxUnit, minUnit) ==
    LET maxToken == durationFormatElements[maxUnit].token
        minToken == durationFormatElements[minUnit].token
    IN  substring(string, indexOf(string, maxToken),
                  indexOf(string, minToken) + Len(minToken))

PreRound_none(input, minValue) == input

\* format, "Rounding minUnit to closest visible unit":
\* input = Math.round(input / minValue) * minValue.
PreRound(input, minValue) == MathRoundDiv(input, minValue) * minValue

\* format's `for (var unit in duration)` loop: the keys come in insertion order,
\* maxUnit first.
RECURSIVE ReplaceLoop(_, _, _, _)
ReplaceLoop(i, minUnitIdx, string, duration) ==
    IF i > minUnitIdx THEN string
    ELSE LET unit == OrderAt(i)
             token == durationFormatElements[unit].token
         IN  ReplaceLoop(i + 1, minUnitIdx,
                         replace(string, token, numFormatter(duration[unit])),
                         duration)

\* The formatter's format(input).  A falsy minUnit makes
\* durationFormatElements[undefined].value throw a TypeError.
format(f, input0) ==
    IF f.resolvedOptions.minUnit \notin DurationUnits \/
       f.resolvedOptions.maxUnit \notin DurationUnits
    THEN [threw |-> "TypeError", duration |-> <<>>, string |-> <<>>, input |-> input0]
    ELSE
    LET minValue == durationFormatElements[f.resolvedOptions.minUnit].value
        input == PreRound(input0, minValue)
        duration == splitIntoTimeUnits(input, f.maxUnitIdx, f.minUnitIdx)
        trimmed == trimDurationPattern(f.fmt, f.resolvedOptions.maxUnit,
                                       f.resolvedOptions.minUnit)
        string == ReplaceLoop(f.maxUnitIdx, f.minUnitIdx, trimmed, duration)
    IN  [threw |-> "none",
         duration |-> duration,
         string |-> IF input < 0 THEN <<"-">> \o string ELSE string,
         input |-> input]

-----------------------------------------------------------------------------
(* Bounds and inputs of the duration formatter *)

MaxHours == 1

\* The 'durationPattern' message the localization resolver returns (en-US).
DurationPatterns == {<<"h", "h", ":", "m", "m", ":", "s", "s", ".", "S", "S">>}

\* What a caller may pass as maxUnit / minUnit: a unit name, nothing ("absent":
\* Object.assign keeps the default), a falsy value ("") or an unknown name.
UnitOptions == DurationUnits \cup {"absent", "", "day"}

\* Durations in milliseconds, of either sign: around every unit boundary, and
\* at, just below and just above half a step of every minUnit.
MsSamples == {0, 1, 4, 5, 6, 10, 400, 499, 500, 501, 994, 995, 999}
DurationInputs ==
    {sign * (h * 3600000 + m * 60000 + s * 1000 + ms) :
        sign \in {-1, 1}, h \in 0..MaxHours, m \in {0, 29, 30, 59},
        s \in {0, 1, 29, 30, 59}, ms \in MsSamples}

NoFormatter ==
    [state |-> "none", resolvedOptions |-> [maxUnit |-> "", minUnit |-> ""],
     maxUnitIdx |-> 0, minUnitIdx |-> 0, fmt |-> <<>>]

NoElement == [l10nId |-> "", l10nArgs |-> [value |-> NaN], textContent |-> ""]

-----------------------------------------------------------------------------
(* The duration formatter: a caller builds a formatter from its options and   *)
(* the locale's pattern, then formats a duration with it.                     *)

InitDuration ==
    /\ formatter = NoFormatter
    /\ element = NoElement
    /\ now = TimeMs(0, 0)
    /\ op = "none"
    /\ args \in [maxUnit : UnitOptions, minUnit : UnitOptions,
                 fmt : DurationPatterns, input : DurationInputs]
    /\ ret = <<>>

\* mozIntl.DurationFormat(locales, options), resolved with the pattern.
DurationFormat ==
    LET resolvedOptions ==
            [maxUnit |-> IF args.maxUnit = "absent" THEN "hour" ELSE args.maxUnit,
             minUnit |-> IF args.minUnit = "absent" THEN "second" ELSE args.minUnit]
        maxUnitIdx == getDurationUnitIdx(resolvedOptions.maxUnit, 0)
        minUnitIdx == getDurationUnitIdx(resolvedOptions.minUnit,
                                         Len(durationFormatOrder) - 1)
        threw == maxUnitIdx = -2 \/ minUnitIdx = -2
    IN  /\ op = "none"
        /\ formatter' = [state |-> IF threw THEN "threw" ELSE "ready",
                         resolvedOptions |-> resolvedOptions,
                         maxUnitIdx |-> maxUnitIdx, minUnitIdx |-> minUnitIdx,
                         fmt |-> args.fmt]
        /\ op' = "DurationFormat"
        /\ ret' = [threw |-> IF threw THEN "Error" ELSE "none"]
        /\ UNCHANGED <<element, now, args>>

\* formatter.format(input)
Format ==
    /\ op = "DurationFormat"
    /\ formatter.state = "ready"
    /\ op' = "format"
    /\ ret' = format(formatter, args.input)
    /\ UNCHANGED <<formatter, element, now, args>>

NextDuration == DurationFormat \/ Format

SpecDuration == InitDuration /\ [][NextDuration]_vars

-----------------------------------------------------------------------------
(* Properties of the duration formatter (checked under SpecDuration) *)

\* format ran on a formatter whose maxUnit does not come after its minUnit.
ValidPairFormatted ==
    /\ op = "format"
    /\ ret.threw = "none"
    /\ formatter.maxUnitIdx <= formatter.minUnitIdx

\* format ran on a formatter whose units were passed reversed.
ReversedPairFormatted ==
    /\ op = "format"
    /\ formatter.resolvedOptions.maxUnit \in DurationUnits
    /\ formatter.resolvedOptions.minUnit \in DurationUnits
    /\ formatter.maxUnitIdx > formatter.minUnitIdx

RECURSIVE BreakdownTotal(_, _)
BreakdownTotal(duration, i) ==
    IF i >= Len(durationFormatOrder) THEN 0
    ELSE (IF OrderAt(i) \in DOMAIN duration
          THEN duration[OrderAt(i)] * durationFormatElements[OrderAt(i)].value
          ELSE 0) + BreakdownTotal(duration, i + 1)

MinValue == durationFormatElements[formatter.resolvedOptions.minUnit].value

\* C1: the breakdown of every duration d, for every valid (maxUnit, minUnit),
\* adds up to |d| rounded to the nearest multiple of minUnit's value.
C1_BreakdownIsRoundedMagnitude ==
    ValidPairFormatted =>
        BreakdownTotal(ret.duration, 0)
            = MathRoundDiv(Abs(args.input), MinValue) * MinValue

\* C3: the formatted string starts with '-' exactly when the original input is
\* negative, and no magnitude of the breakdown is negative.
C3_MinusIffInputNegative ==
    ValidPairFormatted =>
        /\ (Len(ret.string) > 0 /\ ret.string[1] = "-") <=> (args.input < 0)
        /\ \A u \in DOMAIN ret.duration : ret.duration[u] >= 0

\* C4: with maxUnit after minUnit in the unit order, format fails with
\* InvalidRange and returns no breakdown.
C4_ReversedUnitsFail ==
    ReversedPairFormatted => ret.threw = "InvalidRange"

\* C10: in every breakdown for a valid pair, each unit below maxUnit is smaller
\* than the ratio to the next larger unit (minute < 60, second < 60, the
\* millisecond field < 100).
C10_FieldsBelowRatio ==
    ValidPairFormatted =>
        \A i \in (formatter.maxUnitIdx + 1)..formatter.minUnitIdx :
            /\ ret.duration[OrderAt(i)] >= 0
            /\ ret.duration[OrderAt(i)] <
                   durationFormatElements[OrderAt(i - 1)].value
                       \div durationFormatElements[OrderAt(i)].value

\* C10's case: 59.999 s shown in minutes and seconds carries into the minute
\* instead of showing 60 seconds.
C10_Witness ==
    /\ ValidPairFormatted
    /\ args.input = 59999
    /\ formatter.resolvedOptions = [maxUnit |-> "minute", minUnit |-> "second"]
    /\ ret.duration["minute"] = 1
    /\ ret.duration["second"] = 0

-----------------------------------------------------------------------------
(* Relative time: ComputeTimeUnits, GetBestMatchUnit, relativeTimeFormatId *)

\* computeTimeUnits(v): every unit is derived from the previous rounded one.
\* With v = NaN every field is NaN (the record's nan flag).
computeTimeUnits(v) ==
    LET millisecond == v    \* Math.round of an integer
        second == v.s + (IF v.ms >= 500 THEN 1 ELSE 0)  \* Math.round(millisecond / 1000)
        minute == MathRoundDiv(second, 60)
        hour == MathRoundDiv(minute, 60)
        day == MathRoundDiv(hour, 24)
        \* rawYear = day * 400 / 146097, kept as a fraction
    IN  [nan |-> v.nan,
         millisecond |-> millisecond,
         second |-> second,
         minute |-> minute,
         hour |-> hour,
         day |-> day,
         week |-> MathRoundDiv(day, 7),
         month |-> MathRoundDiv(day * 400 * 12, 146097),
         quarter |-> MathRoundDiv(day * 400 * 4, 146097),
         year |-> MathRoundDiv(day * 400, 146097)]

getBestMatchUnit_withSecond(units) ==
    IF units.nan THEN "year"
    ELSE IF Abs(units.second) < 45 THEN "second"
    ELSE IF Abs(units.minute) < 45 THEN "minute"
    ELSE IF Abs(units.hour) < 22 THEN "hour"
    ELSE IF Abs(units.day) < 7 THEN "day"
    ELSE IF Abs(units.week) < 4 THEN "week"
    ELSE IF Abs(units.month) < 11 THEN "month"
    ELSE "year"

\* getBestMatchUnit: every comparison with NaN is false, so NaN units fall
\* through to 'year'.
getBestMatchUnit(units) ==
    IF units.nan THEN "year"
    ELSE IF Abs(units.minute) < 45 THEN "minute"
    ELSE IF Abs(units.hour) < 22 THEN "hour"
    ELSE IF Abs(units.day) < 7 THEN "day"
    ELSE IF Abs(units.week) < 4 THEN "week"
    ELSE IF Abs(units.month) < 11 THEN "month"
    ELSE "year"

\* The unit names a caller may select (the fields of units other than
\* millisecond).
RelativeUnits ==
    {"second", "minute", "hour", "day", "week", "month", "quarter", "year"}

\* units[unit] as a JavaScript number, for the unit names a caller selects
\* (RelativeUnits) or leaves out: NaN for NaN units, and for a missing unit
\* (units[undefined] is undefined, which compares and Math.abs()es like NaN).
UnitValue(units, unit) ==
    IF units.nan \/ unit \notin RelativeUnits THEN NaN ELSE Num(units[unit])

\* relativeTimeFormatId(x, options), with dateNow the value Date.now() returns.
\* An absent option is "" (options.unit then concatenates as 'undefined').
relativeTimeFormatId(x, options, dateNow) ==
    LET ms == TimeSub(x, dateNow)
        units == computeTimeUnits(ms)
        unit == IF options.unit = "bestFit" THEN getBestMatchUnit(units)
                ELSE options.unit
        v == UnitValue(units, unit)
        tl == IF ~v.nan /\ v.n < 0 THEN "-ago" ELSE "-until"
        style == IF options.style = "" THEN "long" ELSE options.style
        entry == (IF unit = "" THEN "undefined" ELSE unit) \o "s" \o tl \o "-" \o style
    IN  [unit |-> entry, value |-> IF v.nan THEN NaN ELSE Num(Abs(v.n))]

-----------------------------------------------------------------------------
(* Bounds and inputs of the relative-time entry points *)

MaxYears == 1

\* Readings of Date.now().
ClockReadings == {TimeMs(1446336000, 0), TimeMs(1446336000, 999)}

\* Offsets in milliseconds, of either sign: a whole number of days plus a time
\* of day, around every threshold of getBestMatchUnit and every rounding tie.
DaySamples == {0, 1, 6, 7, 10, 24, 25, 319, 320}
SecondOfDaySamples ==
    {0, 2, 29, 30, 2640, 2669, 2670, 2700, 43199, 43200, 77340, 77369, 77370, 86399}
Offsets ==
    {TimeMs(sign * ((y * 365 + d) * 86400 + sod), sign * ms) :
        sign \in {-1, 1}, y \in 0..MaxYears, d \in DaySamples,
        sod \in SecondOfDaySamples, ms \in {0, 499, 500}}

UnitChoices == RelativeUnits \cup {"bestFit", ""}
StyleChoices == {"long", "short", ""}

-----------------------------------------------------------------------------
(* RelativeTimeFormat(locales, options).format(x) and _gaia.relativePart(ms) *)

InitRelative ==
    /\ formatter = NoFormatter
    /\ element = NoElement
    /\ now \in ClockReadings
    /\ op = "none"
    /\ \E offset \in Offsets \cup {NaNTime} :
          args \in [x : {TimeAdd(now, offset)}, milliseconds : {offset},
                    unit : UnitChoices, style : StyleChoices]
    /\ ret = <<>>

\* format(x): the key and the value handed to document.l10n.formatValue.
RelativeTimeFormat_format ==
    /\ op = "none"
    /\ op' = "RelativeTimeFormat.format"
    /\ LET id == relativeTimeFormatId(args.x,
                     [unit |-> args.unit, style |-> args.style], now)
       IN  ret' = [l10nId |-> id.unit, value |-> id.value]
    /\ UNCHANGED <<formatter, element, now, args>>

relativePart ==
    /\ op = "none"
    /\ op' = "relativePart"
    /\ LET units == computeTimeUnits(args.milliseconds)
           unit == getBestMatchUnit(units)
       IN  ret' = [unit |-> unit \o "s",
                   value |-> IF units.nan THEN NaN ELSE Num(Abs(units[unit]))]
    /\ UNCHANGED <<formatter, element, now, args>>

NextRelative == RelativeTimeFormat_format \/ relativePart

SpecRelative == InitRelative /\ [][NextRelative]_vars

-----------------------------------------------------------------------------
(* Properties of the relative-time entry points (checked under SpecRelative) *)

\* C2: a target 2000 ms in the past, with unit 'bestFit' and style 'long', gives
\* the key 'minutes-ago-long' with magnitude 0.
C2_TwoSecondsAgoKey ==
    (/\ op = "RelativeTimeFormat.format"
     /\ args.milliseconds = TimeMs(-2, 0)
     /\ args.unit = "bestFit"
     /\ args.style = "long")
    => /\ ret.l10nId = "minutes-ago-long"
       /\ ret.value = Num(0)

-----------------------------------------------------------------------------
(* _gaia.RelativeDate(locales, options): format and formatElement *)

MaxTick == 1

\* What a caller passes as maxDiff, in seconds: nothing (0, replaced by the
\* default like every falsy value) or a limit of its own.
MaxDiffChoices == {0, 60, 86400}

\* The ages (Date.now() - time) a date is formatted at, in milliseconds.
Ages ==
    {TimeMs(sign * (d * 86400 + sod), ms) :
        sign \in {-1, 1}, d \in {0, 1, 9, 10, 11}, sod \in {0, 2, 59, 60, 61, 2700},
        ms \in {0, 1, 500}}

\* An element as formatElement finds it: without a data-l10n-id, or with the one
\* an earlier call left.
ElementsBefore ==
    {NoElement,
     [l10nId |-> "minutes-ago-long", l10nArgs |-> [value |-> Num(5)], textContent |-> ""]}

InitRelativeDate ==
    /\ formatter = NoFormatter
    /\ element \in ElementsBefore
    /\ now \in ClockReadings
    /\ op = "none"
    /\ \E age \in Ages \cup {NaNTime} :
          args \in [time : {TimeSub(now, age)}, maxDiff : MaxDiffChoices,
                    style : StyleChoices, tick : 0..MaxTick]
    /\ ret = <<>>

\* relativeFmtOptions of RelativeDate(locales, options).
relativeFmtOptions(style) ==
    [unit |-> "bestFit", style |-> IF style = "" THEN "long" ELSE style,
     minUnit |-> "minute"]

\* maxDiff = maxDiff || 86400 * 10
DefaultedMaxDiff(maxDiff) == IF maxDiff = 0 THEN 86400 * 10 ELSE maxDiff

\* secDiff = (Date.now() - time) / 1000 and the test secDiff > maxDiff, false
\* for NaN.
SecDiffExceeds(dateNow, time, maxDiff) ==
    LET diff == TimeSub(dateNow, time)
    IN  ~diff.nan /\ (diff.s > maxDiff \/ (diff.s = maxDiff /\ diff.ms > 0))

\* format(time, maxDiff).  Date.now() is read once here and once more in
\* relativeTimeFormatId, args.tick milliseconds later.
RelativeDate_format ==
    /\ op = "none"
    /\ op' = "RelativeDate.format"
    /\ now' = TimeAdd(now, TimeMs(0, args.tick))
    /\ LET maxDiff == DefaultedMaxDiff(args.maxDiff)
           id == relativeTimeFormatId(args.time, relativeFmtOptions(args.style), now')
       IN  ret' = IF TimeSub(now, args.time).nan
                  THEN [kind |-> "l10n", l10nId |-> "incorrectDate", value |-> NaN]
                  ELSE IF SecDiffExceeds(now, args.time, maxDiff)
                  THEN [kind |-> "date", l10nId |-> "", value |-> NaN]
                  ELSE [kind |-> "l10n", l10nId |-> id.unit, value |-> id.value]
    /\ UNCHANGED <<formatter, element, args>>

\* formatElement(element, time, maxDiff): no branch returns, so every statement
\* runs in order on the element.
RelativeDate_formatElement ==
    /\ op = "none"
    /\ op' = "RelativeDate.formatElement"
    /\ now' = TimeAdd(now, TimeMs(0, args.tick))
    /\ LET maxDiff == DefaultedMaxDiff(args.maxDiff)
           e1 == IF TimeSub(now, args.time).nan
                 THEN [element EXCEPT !.l10nId = "incorrectDate"]
                 ELSE element
           e2 == [e1 EXCEPT !.l10nId = ""]
           e3 == IF SecDiffExceeds(now, args.time, maxDiff)
                 THEN [e2 EXCEPT !.textContent = "date"]
                 ELSE e2
           id == relativeTimeFormatId(args.time, relativeFmtOptions(args.style), now')
       IN  element' = [e3 EXCEPT !.l10nId = id.unit,
                                 !.l10nArgs = [value |-> id.value]]
    /\ ret' = <<>>
    /\ UNCHANGED <<formatter, args>>

NextRelativeDate == RelativeDate_format \/ RelativeDate_formatElement

SpecRelativeDate == InitRelativeDate /\ [][NextRelativeDate]_vars

\* C5: a NaN time is mapped to 'incorrectDate' and nothing else: format looks
\* up 'incorrectDate', and formatElement leaves 'incorrectDate' as the
\* element's data-l10n-id.
C5_NaNTimeIsIncorrectDate ==
    /\ (op = "RelativeDate.format" /\ args.time.nan)
          => ret.kind = "l10n" /\ ret.l10nId = "incorrectDate"
    /\ (op = "RelativeDate.formatElement" /\ args.time.nan)
          => element.l10nId = "incorrectDate"

-----------------------------------------------------------------------------
(* trimDurationPattern on arbitrary patterns *)

MaxPieces == 5

\* What a localized pattern is put together from: the four tokens, a separator
\* and a lone letter of a token.
PatternPieces ==
    {<<"h", "h">>, <<"m", "m">>, <<"s", "s">>, <<"S", "S">>, <<":">>, <<"s">>}

RECURSIVE Flatten(_)
Flatten(pieces) ==
    IF pieces = <<>> THEN <<>> ELSE Head(pieces) \o Flatten(Tail(pieces))

Patterns ==
    {Flatten(pieces) : pieces \in UNION {[1..n -> PatternPieces] : n \in 0..MaxPieces}}

InitTrim ==
    /\ formatter = NoFormatter
    /\ element = NoElement
    /\ now = TimeMs(0, 0)
    /\ op = "none"
    /\ args \in [string : Patterns, maxUnit : DurationUnits, minUnit : DurationUnits]
    /\ ret = <<>>

TrimDurationPattern ==
    /\ op = "none"
    /\ op' = "trimDurationPattern"
    /\ ret' = trimDurationPattern(args.string, args.maxUnit, args.minUnit)
    /\ UNCHANGED <<formatter, element, now, args>>

NextTrim == TrimDurationPattern

SpecTrim == InitTrim /\ [][NextTrim]_vars

StartsWith(string, token) ==
    Len(string) >= Len(token) /\ SubSeq(string, 1, Len(token)) = token

EndsWith(string, token) ==
    Len(string) >= Len(token)
        /\ SubSeq(string, Len(string) - Len(token) + 1, Len(string)) = token

\* 0-based positions at which token occurs in string.
Occurrences(string, token) ==
    {i \in 0..(Len(string) - Len(token)) :
        \A k \in 1..Len(token) : string[i + k] = token[k]}

\* trimDurationPattern ran on a pattern holding both tokens, for a pair with
\* maxUnit not after minUnit.
TrimmedWithBothTokens ==
    /\ op = "trimDurationPattern"
    /\ OrderIndexOf(args.maxUnit) <= OrderIndexOf(args.minUnit)
    /\ Occurrences(args.string, durationFormatElements[args.maxUnit].token) # {}
    /\ Occurrences(args.string, durationFormatElements[args.minUnit].token) # {}

\* 0-based position of the first occurrence of token in string.
FirstOccurrence(string, token) ==
    CHOOSE i \in Occurrences(string, token) :
        \A j \in Occurrences(string, token) : i <= j

FirstMax == FirstOccurrence(args.string, durationFormatElements[args.maxUnit].token)
FirstMin == FirstOccurrence(args.string, durationFormatElements[args.minUnit].token)

\* The result is the part of the pattern that begins at the first occurrence
\* of maxUnit's token and ends with minUnit's token.
TrimIsMaxToMin ==
    /\ StartsWith(ret, durationFormatElements[args.maxUnit].token)
    /\ EndsWith(ret, durationFormatElements[args.minUnit].token)
    /\ FirstMax + Len(ret) <= Len(args.string)
    /\ \A k \in 1..Len(ret) : ret[k] = args.string[FirstMax + k]

\* C6 as stated: for every pattern that holds both tokens the result runs from
\* the first occurrence of maxUnit's token to the last character of minUnit's
\* token.
C6_TrimOfAnyPattern == TrimmedWithBothTokens => TrimIsMaxToMin

\* C6 amended: for every pattern that holds both tokens with the first maxUnit
\* token not after the first minUnit token, the result runs from the first
\* occurrence of maxUnit's token to the last character of the first occurrence
\* of minUnit's token.
C6_TrimOfOrderedPattern ==
    (TrimmedWithBothTokens /\ FirstMax <= FirstMin) =>
        /\ TrimIsMaxToMin
        /\ Len(ret) = FirstMin + Len(durationFormatElements[args.minUnit].token)
                           - FirstMax

\* C6's case: a pattern with text around the two tokens is cut down to them.
C6_Witness ==
    /\ TrimmedWithBothTokens
    /\ FirstMax <= FirstMin
    /\ args.string = <<":", "m", "m", ":", "s", "s", "s">>
    /\ args.maxUnit = "minute"
    /\ args.minUnit = "second"
    /\ ret = <<"m", "m", ":", "s", "s">>

-----------------------------------------------------------------------------
(* Magnitudes of the unit formatter.  A terabyte is 2^40 bytes, beyond the    *)
(* model checker's 32-bit integers, so a non-negative integer magnitude is a  *)
(* sequence of BigWidth digits in base 1024, least significant first.         *)

BigBase == 1024
BigWidth == 9

RECURSIVE BigCarry(_, _, _)
\* The digits of the number whose i-th digit sum is raw[i], from digit i on.
BigCarry(raw, i, carry) ==
    IF i > BigWidth THEN <<>>
    ELSE <<(raw[i] + carry) % BigBase>>
             \o BigCarry(raw, i + 1, (raw[i] + carry) \div BigBase)

BigOf(n) == BigCarry([i \in 1..BigWidth |-> IF i = 1 THEN n ELSE 0], 1, 0)

BigAdd(a, b) == BigCarry([i \in 1..BigWidth |-> a[i] + b[i]], 1, 0)

RECURSIVE BigDigitSum(_, _, _, _)
BigDigitSum(a, b, i, j) ==
    IF j > i THEN 0 ELSE a[j] * b[i + 1 - j] + BigDigitSum(a, b, i, j + 1)

BigMul(a, b) == BigCarry([i \in 1..BigWidth |-> BigDigitSum(a, b, i, 1)], 1, 0)

RECURSIVE BigLessFrom(_, _, _)
BigLessFrom(a, b, i) ==
    IF i = 0 THEN FALSE
    ELSE IF a[i] # b[i] THEN a[i] < b[i]
    ELSE BigLessFrom(a, b, i - 1)

BigLess(a, b) == BigLessFrom(a, b, BigWidth)
BigLeq(a, b) == ~BigLess(b, a)

\* a - b for a >= b (a borrow is a carry of -1).
BigSub(a, b) == BigCarry([i \in 1..BigWidth |-> a[i] - b[i]], 1, 0)

\* The largest k in lo..(hi - 1) with k * d <= n, by bisection
\* (lo * d <= n < hi * d throughout).
RECURSIVE BigDigitBetween(_, _, _, _)
BigDigitBetween(n, d, lo, hi) ==
    IF hi - lo <= 1 THEN lo
    ELSE LET mid == lo + (hi - lo) \div 2
         IN  IF BigLeq(BigMul(d, BigOf(mid)), n)
             THEN BigDigitBetween(n, d, mid, hi)
             ELSE BigDigitBetween(n, d, lo, mid)

\* Long division from digit i of n down, with the remainder of the digits above.
RECURSIVE BigLongDiv(_, _, _, _, _)
BigLongDiv(n, d, i, rem, q) ==
    IF i = 0 THEN q
    ELSE LET r == BigAdd(BigMul(rem, BigOf(BigBase)), BigOf(n[i]))
             digit == BigDigitBetween(r, d, 0, BigBase)
         IN  BigLongDiv(n, d, i - 1, BigSub(r, BigMul(d, BigOf(digit))),
                        [q EXCEPT ![i] = digit])

\* Math.floor(n / d) for d > 0.
BigFloorDiv(n, d) == BigLongDiv(n, d, BigWidth, BigOf(0), BigOf(0))

RECURSIVE BigPower(_, _)
BigPower(n, e) == IF e = 0 THEN BigOf(1) ELSE BigMul(BigOf(n), BigPower(n, e - 1))

\* A magnitude as getFormattedUnit receives it: a number (an integer with its
\* sign), or one of the values parseInt() takes to NaN.
Magnitude(neg, mag) == [kind |-> "number", neg |-> neg, mag |-> mag]
NotANumber(kind) == [kind |-> kind, neg |-> FALSE, mag |-> BigOf(0)]

\* isNaN(parseInt(v))
ParseIntIsNaN(v) == v.kind # "number"

-----------------------------------------------------------------------------
(* Data used by UnitFormat and getFormattedUnit *)

unitFormatData ==
    [duration |-> <<[name |-> "second", value |-> BigOf(1)],
                    [name |-> "minute", value |-> BigOf(60)],
                    [name |-> "hour",   value |-> BigOf(60 * 60)],
                    [name |-> "day",    value |-> BigOf(24 * 60 * 60)],
                    [name |-> "month",  value |-> BigOf(30 * 24 * 60 * 60)]>>,
     digital  |-> <<[name |-> "byte",     value |-> BigOf(1)],
                    [name |-> "kilobyte", value |-> BigOf(1024)],
                    [name |-> "megabyte", value |-> BigOf(1024 * 1024)],
                    [name |-> "gigabyte", value |-> BigOf(1024 * 1024 * 1024)],
                    [name |-> "terabyte",
                     value |-> BigMul(BigOf(1024 * 1024), BigOf(1024 * 1024))]>>]

\* 'rounding' is kept in tenths: 1 is 10 tenths, 0.8 is 8 tenths.
unitFormatGroups ==
    [duration |-> [units |-> {"second", "minute", "hour", "day", "month"},
                   styles |-> {"narrow"},
                   roundingTenths |-> 10],
     digital  |-> [units |-> {"byte", "kilobyte", "megabyte", "gigabyte", "terabyte"},
                   styles |-> {"short"},
                   roundingTenths |-> 8]]

\* getUnitFormatGroupName: the group that lists the unit, "" for undefined.
getUnitFormatGroupName(unitName) ==
    IF unitName \in unitFormatGroups.duration.units THEN "duration"
    ELSE IF unitName \in unitFormatGroups.digital.units THEN "digital"
    ELSE ""

\* UnitFormat(locales, options): the message key its format() looks up, or the
\* RangeError it throws.
UnitFormat(options) ==
    LET unitGroup == getUnitFormatGroupName(options.unit)
    IN  IF unitGroup = "" THEN [threw |-> "RangeError", unit |-> ""]
        ELSE IF options.style \notin unitFormatGroups[unitGroup].styles
        THEN [threw |-> "RangeError", unit |-> ""]
        ELSE [threw |-> "none",
              unit |-> unitGroup \o "-" \o options.unit \o "-" \o options.style]

\* v < units[i].value * unitFormatGroups[type].rounding
BelowThreshold(v, value, roundingTenths) ==
    v.neg \/ BigLess(BigMul(v.mag, BigOf(10)), BigMul(value, BigOf(roundingTenths)))

RECURSIVE ScaleLoop_offByOne(_, _, _, _)
ScaleLoop_offByOne(units, roundingTenths, v, i) ==
    IF i >= Len(units) THEN 0
    ELSE IF BelowThreshold(v, units[i + 1].value, roundingTenths) THEN i
    ELSE IF i = Len(units) - 1 THEN i
    ELSE ScaleLoop_offByOne(units, roundingTenths, v, i + 1)

\* The for loop of getFormattedUnit from index i on (units[i + 1] is the code's
\* units[i]); scale stays 0 when the loop body never runs.
RECURSIVE ScaleLoop(_, _, _, _)
ScaleLoop(units, roundingTenths, v, i) ==
    IF i >= Len(units) THEN 0
    ELSE IF BelowThreshold(v, units[i + 1].value, roundingTenths) THEN i - 1
    ELSE IF i = Len(units) - 1 THEN i
    ELSE ScaleLoop(units, roundingTenths, v, i + 1)

\* A signed integer number of hundredths (the value 1.5 is 150 hundredths).
Hundredths(neg, mag) == [neg |-> neg /\ mag # BigOf(0), mag |-> mag]

\* Math.round(v / value * 100), the returned value in hundredths.  A tie goes
\* towards +Infinity for either sign.  At an exact tie (v / value * 100 is
\* k + 1/2) the double v / value * 100 may fall just below the tie
\* (3618 / 3600 * 100 is 100.49999999999999), so both neighbours are outcomes.
ScaledHundredths(v, value) ==
    LET twice == BigMul(value, BigOf(2))
        n == BigAdd(BigMul(v.mag, BigOf(200)), value)
        tie == BigMul(twice, BigFloorDiv(n, twice)) = n
    IN  IF v.neg
        THEN LET q == BigFloorDiv(BigSub(n, BigOf(1)), twice)
             IN  IF tie THEN {Hundredths(TRUE, BigAdd(q, BigOf(1))), Hundredths(TRUE, q)}
                        ELSE {Hundredths(TRUE, q)}
        ELSE LET q == BigFloorDiv(n, twice)
             IN  IF tie THEN {Hundredths(FALSE, BigSub(q, BigOf(1))), Hundredths(FALSE, q)}
                        ELSE {Hundredths(FALSE, q)}

Undefined ==
    [kind |-> "undefined", l10nId |-> "", unit |-> "",
     value |-> Hundredths(FALSE, BigOf(0))]
Threw(error) ==
    [kind |-> "threw", l10nId |-> error, unit |-> "",
     value |-> Hundredths(FALSE, BigOf(0))]

\* getFormattedUnit from `var units = unitFormatData[type]` on: the results it
\* can give.
FormattedUnits(type, style, v) ==
    LET units == unitFormatData[type]
        scale == ScaleLoop(units, unitFormatGroups[type].roundingTenths, v, 1)
        fmt == UnitFormat([unit |-> units[scale + 1].name, style |-> style])
    IN  IF fmt.threw # "none" THEN {Threw(fmt.threw)}
        ELSE {[kind |-> "l10n", l10nId |-> fmt.unit,
               unit |-> units[scale + 1].name, value |-> value] :
                  value \in ScaledHundredths(v, units[scale + 1].value)}

getFormattedUnit_validateFirst(type, style, v) ==
    IF type \notin DOMAIN unitFormatData THEN {Threw("RangeError")}
    ELSE IF style \notin unitFormatGroups[type].styles THEN {Threw("RangeError")}
    ELSE IF ParseIntIsNaN(v) THEN {Undefined}
    ELSE FormattedUnits(type, style, v)

\* _gaia.getFormattedUnit(type, style, v): a promise of undefined, a thrown
\* RangeError, or the message key and value (in hundredths) handed to
\* document.l10n.formatValue.
getFormattedUnit(type, style, v) ==
    IF ParseIntIsNaN(v) THEN {Undefined}
    ELSE IF type \notin DOMAIN unitFormatData THEN {Threw("RangeError")}
    ELSE IF style \notin unitFormatGroups[type].styles THEN {Threw("RangeError")}
    ELSE FormattedUnits(type, style, v)

-----------------------------------------------------------------------------
(* Bounds and inputs of getFormattedUnit *)

MaxExponent == 3

\* Magnitudes m * 1024^(e+1) + r * 1024^e: around 0.8 of every digital unit,
\* at its half and at several of it.
DigitalSamples ==
    {BigMul(BigOf(m * 1024 + r), BigPower(1024, e)) :
        e \in 0..MaxExponent, m \in {0, 1, 2, 1000}, r \in {0, 1, 5, 512, 819, 820, 1023}}

\* Magnitudes around every unit of the duration group and its rounding ties.
DurationSamples ==
    {BigOf(n) : n \in {0, 1, 59, 60, 89, 90, 3599, 3600, 3618, 5400, 86399, 86400,
                       129600, 2591999, 2592000, 3888000, 7776000}}

MagnitudeChoices ==
    {Magnitude(FALSE, mag) : mag \in DigitalSamples \cup DurationSamples}
    \cup {Magnitude(TRUE, BigOf(n)) : n \in {1, 5, 1536}}
    \cup {NotANumber(kind) : kind \in {"NaN", "undefined", "string", "Infinity"}}

TypeChoices == {"duration", "digital", "length"}
UnitStyleChoices == {"narrow", "short", "long"}

InitUnit ==
    /\ formatter = NoFormatter
    /\ element = NoElement
    /\ now = TimeMs(0, 0)
    /\ op = "none"
    /\ args \in [type : TypeChoices, style : UnitStyleChoices, v : MagnitudeChoices]
    /\ ret = <<>>

GetFormattedUnit ==
    /\ op = "none"
    /\ op' = "getFormattedUnit"
    /\ ret' \in getFormattedUnit(args.type, args.style, args.v)
    /\ UNCHANGED <<formatter, element, now, args>>

NextUnit == GetFormattedUnit

SpecUnit == InitUnit /\ [][NextUnit]_vars

-----------------------------------------------------------------------------
(* Properties of getFormattedUnit (checked under SpecUnit) *)

\* The 0-based index of the unit the result names, in its group's unit list.
ChosenScale ==
    (CHOOSE i \in 1..Len(unitFormatData[args.type]) :
        unitFormatData[args.type][i].name = ret.unit) - 1

\* magnitude < units[i].value * group.roundingFactor, for the code's index i.
MagnitudeBelow(i) ==
    BelowThreshold(args.v, unitFormatData[args.type][i + 1].value,
                   unitFormatGroups[args.type].roundingTenths)

\* |a - b| on magnitudes.
BigDistance(a, b) == IF BigLess(a, b) THEN BigSub(b, a) ELSE BigSub(a, b)

\* C8: for either group and every magnitude, the chosen scale is i - 1 for the
\* first index i >= 1 with magnitude < units[i].value * roundingFactor, and the
\* last unit when there is none; the value is magnitude / units[scale].value
\* rounded to two decimals; 1536 in the digital group is 1.5 kilobyte.
C8_ScaleAndValue ==
    (op = "getFormattedUnit" /\ ret.kind = "l10n") =>
        LET last == Len(unitFormatData[args.type]) - 1
            value == unitFormatData[args.type][ChosenScale + 1].value
        IN  /\ ret.unit \in unitFormatGroups[args.type].units
            /\ \A i \in 1..ChosenScale : ~MagnitudeBelow(i)
            /\ ChosenScale = last \/ MagnitudeBelow(ChosenScale + 1)
            /\ ret.l10nId = args.type \o "-" \o ret.unit \o "-" \o args.style
            /\ ret.value.neg => args.v.neg
            /\ BigLeq(BigMul(BigOf(2),
                             BigDistance(BigMul(args.v.mag, BigOf(100)),
                                         BigMul(ret.value.mag, value))),
                      value)
            /\ (args.type = "digital" /\ args.v = Magnitude(FALSE, BigOf(1536)))
                  => ret.unit = "kilobyte" /\ ret.value = Hundredths(FALSE, BigOf(150))

\* C8's case: 1536 bytes came out as 1.5 kilobyte.
C8_Witness ==
    /\ op = "getFormattedUnit"
    /\ args = [type |-> "digital", style |-> "short",
               v |-> Magnitude(FALSE, BigOf(1536))]
    /\ ret = [kind |-> "l10n", l10nId |-> "digital-kilobyte-short",
              unit |-> "kilobyte", value |-> Hundredths(FALSE, BigOf(150))]

=============================================================================
